---- MODULE Spec2Model ----
(***************************************************************************)
(* The incremental multi-bundle build pipeline of creatorcoreNextApp:      *)
(*   scripts/build-interfaces.js            (the orchestrator)             *)
(*   scripts/detect-changed-interfaces.js   (the change detector)          *)
(*   scripts/generate-bundle-manifest.js    (the manifest generator)       *)
(* over a small file system: src/interfaces/<name>/, src/shared/,          *)
(* vite.widget.config.ts, public/bundles/<name>.js and                     *)
(* public/bundles/manifest.json.                                           *)
(*                                                                         *)
(* A file's content is a version number, 0 meaning that the file is not    *)
(* there.  sha256 is taken as collision-free: a digest is the record       *)
(* [sha256 |-> <the sequence of updates fed to the hash>].                 *)
(* The manifest's generatedAt (wall-clock time of the regeneration) is     *)
(* read by no script and is left out of the manifest record.               *)
(* The bundler, the detector subprocess and the generator subprocess may   *)
(* each fail whenever they are invoked.  One script runs at a time and     *)
(* in Spec the working tree is edited between runs only.                   *)
(*                                                                         *)
(* Spec is the pipeline over units of one file each, RaceSpec the same     *)
(* with the working tree edited while a run goes on.  HashSpec studies     *)
(* hashDirectory over trees of several files in any readdir order,         *)
(* DiscoverySpec studies discoverInterfaces over any content of            *)
(* src/interfaces/, NameSpec the globalName given to a unit, and           *)
(* WidgetSpec the life of a widget mounted by NextWidget.mount             *)
(* (src/interfaces/widget/index.tsx); each keeps the variables of the      *)
(* others fixed.                                                           *)
(***************************************************************************)
EXTENDS Integers, Sequences, FiniteSets, TLC

\* ---------------------------------------------------------------- bounds
\* Modification times are ticks 1..MaxClock of a logical clock; once the
\* clock has run out the bundler can only fail.
MaxClock == 3
\* The working tree is edited at most MaxEdits times.
MaxEdits == 1

\* ------------------------------------------------------------ file system
\* Directory entries of src/interfaces/ the model knows about, in the order
\* fs.readdirSync lists them (taken as sorted by name).
ReadDir == <<"_template", "dashboard", "widget">>
DirNames == {ReadDir[i] : i \in DOMAIN ReadDir}

\* entry.startsWith('_') || entry.startsWith('.')
StartsWithUnderscoreOrDot(entry) == entry \in {"_template"}

\* The contents a source file can have: two that differ.
Versions == {1, 2}

\* vite.widget.config.ts: not there (0), or there.
CfgVersions == {0, 1}

\* A unit directory: absent, or holding index.tsx with some content
\* (index = 0: the directory is there, index.tsx is not).
NoDir == [isDir |-> FALSE, index |-> 0]
UnitDir(v) == [isDir |-> TRUE, index |-> v]

VARIABLES
    rootExists,   \* src/interfaces/ exists
    src,          \* src/interfaces/<name> for every name of DirNames
    shared,       \* content of the file under src/shared/
    cfg,          \* content of vite.widget.config.ts (0: no such file)
    out,          \* public/bundles/<name>.js for every unit name
    manifest,     \* public/bundles/manifest.json
    clock,        \* the time of the last file written by the bundler
    pc,           \* the orchestrator: "idle", "build" or "manifest"
    built,        \* the units the running (or last) run compiled, in order
    run,          \* the running orchestrator run, or the run that just ended
    detectOut,    \* the standalone detector run that just ended
    genOut,       \* the standalone manifest generator run that just ended
    edits,        \* the number of edits of the working tree so far
    tree,         \* digest study: the files of two directory trees
    readdir,      \* digest study: the order fs.readdirSync lists entries in
    dirHash,      \* digest study: the digest last computed of each tree
    rootDir,      \* discovery study: the entries of src/interfaces/
    discovered,   \* discovery study: what discoverInterfaces last returned
    unitDirs,     \* name study: the unit directories of src/interfaces/
    ifaces,       \* name study: the interfaces discoverInterfaces returned
    widget        \* widget study: a widget mounted by NextWidget.mount

vars == <<rootExists, src, shared, cfg, out, manifest, clock, pc, built,
          run, detectOut, genOut, edits, tree, readdir, dirHash, rootDir,
          discovered, unitDirs, ifaces, widget>>

\* The variables of the build pipeline, and those of the studies of
\* hashDirectory and of discoverInterfaces over richer directories.
buildVars == <<rootExists, src, shared, cfg, out, manifest, clock, pc, built,
               run, detectOut, genOut, edits>>
hashVars == <<tree, readdir, dirHash>>
discoveryVars == <<rootDir, discovered>>
nameVars == <<unitDirs, ifaces>>
studyVars == <<hashVars, discoveryVars, nameVars, widget>>

fsVars == <<rootExists, src, shared, cfg, edits>>

\* ------------------------------------------------------------ ContentHasher
Sha256(updates) == [sha256 |-> updates]

NullHash == [null |-> TRUE]

\* hashFile: null when the file cannot be read.
HashFile(content) ==
    IF content = 0 THEN NullHash ELSE Sha256(<<content>>)

\* getAllFiles(dir).sort(): the relative paths of the files under a unit
\* directory, sorted; none when the directory does not exist.
GetAllFiles(dir) ==
    IF dir.isDir /\ dir.index # 0 THEN <<"index.tsx">> ELSE <<>>

FileContent(dir, path) == dir.index

RECURSIVE HashUpdates(_, _)
HashUpdates(dir, files) ==
    IF files = <<>> THEN <<>>
    ELSE LET fileHash == HashFile(FileContent(dir, Head(files)))
         IN  (IF fileHash # NullHash
                 THEN <<[path |-> Head(files), sep |-> ":", hash |-> fileHash]>>
                 ELSE <<>>)
             \o HashUpdates(dir, Tail(files))

\* hashDirectory
HashDirectory(dir) == Sha256(HashUpdates(dir, GetAllFiles(dir)))

\* src/shared/ as a directory holding one file.
SharedDir(s) == [isDir |-> TRUE, index |-> s]

\* A faulty shared digest: the build config is left out.
SharedHashOfSharedDirOnly(s, c) ==
    Sha256(<<[tag |-> "shared:", hash |-> HashDirectory(SharedDir(s))]>>)

\* calculateSharedHash over given contents
SharedHashOf(s, c) ==
    LET viteHash == HashFile(c)
    IN  Sha256(<<[tag |-> "shared:", hash |-> HashDirectory(SharedDir(s))]>>
               \o (IF viteHash # NullHash
                      THEN <<[tag |-> "vite:", hash |-> viteHash]>>
                      ELSE <<>>))

\* calculateSharedHash in the current state
CalculateSharedHash == SharedHashOf(shared, cfg)

\* ---------------------------------------------------------- Unit Discovery
\* The names the loop of discoverInterfaces keeps (the same filter in the
\* three scripts): not hidden, a directory, holding index.tsx.
ValidUnits ==
    {entry \in DirNames :
        /\ ~StartsWithUnderscoreOrDot(entry)
        /\ src[entry].isDir
        /\ src[entry].index # 0}

ToSet(s) == {s[i] : i \in DOMAIN s}

\* discoverInterfaces of the orchestrator and of the detector, once
\* src/interfaces/ is known to exist: the valid entries in readdir order.
DiscoverInterfaces == SelectSeq(ReadDir, LAMBDA entry : entry \in ValidUnits)

\* ------------------------------------------------------------ output files
NoFile == [present |-> FALSE]

\* The size of the bundle the bundler makes of a unit's sources and the
\* shared code they import.
BundleSize(dir, s) == 100 * dir.index + s

\* public/bundles/<name>.js as written at time t by a successful build of
\* the unit directory dir: sharedAt remembers the shared digest of that
\* moment.
BundleOf(dir, s, c, t) ==
    [present |-> TRUE, src |-> dir, sharedAt |-> SharedHashOf(s, c),
     size |-> BundleSize(dir, s), mtime |-> t]

\* The names a unit directory can have: those discovery does not skip.
UnitNames == {n \in DirNames : ~StartsWithUnderscoreOrDot(n)}

HasBundle(n) == n \in UnitNames /\ out[n].present

BundleFiles == {n \in UnitNames : out[n].present}

\* ----------------------------------------------------------- Manifest Store
NoManifest == [kind |-> "absent"]
CorruptManifest == [kind |-> "corrupt"]

\* loadManifest: null unless the file is there and parses.
LoadManifest == IF manifest.kind = "json" THEN manifest ELSE NoManifest

\* getBundleInfo of a bundle that exists
GetBundleInfo(n) ==
    [bundleFile |-> <<n, ".js">>, bundleSize |-> out[n].size, builtAt |-> out[n].mtime]

\* A faulty generator: its hashDirectory feeds the full path of a file to
\* the hash where the detector's feeds the relative path.
ManifestEntryOfFullPaths(n) ==
    LET bundleInfo == GetBundleInfo(n)
    IN  [sourceHash |-> Sha256(<<[path |-> "src/interfaces/<name>/index.tsx",
                                  sep |-> ":",
                                  hash |-> HashFile(src[n].index)]>>),
         bundleFile |-> bundleInfo.bundleFile,
         bundleSize |-> bundleInfo.bundleSize,
         builtAt |-> bundleInfo.builtAt]

\* Another generator: it records the digest of the source the bundle was
\* compiled from.
ManifestEntryOfCompiled(n) ==
    LET bundleInfo == GetBundleInfo(n)
    IN  [sourceHash |-> HashDirectory(out[n].src),
         bundleFile |-> bundleInfo.bundleFile,
         bundleSize |-> bundleInfo.bundleSize,
         builtAt |-> bundleInfo.builtAt]

\* { sourceHash, ...bundleInfo }
ManifestEntry(n) ==
    LET bundleInfo == GetBundleInfo(n)
    IN  [sourceHash |-> HashDirectory(src[n]),
         bundleFile |-> bundleInfo.bundleFile,
         bundleSize |-> bundleInfo.bundleSize,
         builtAt |-> bundleInfo.builtAt]

\* A faulty generator: its copy of calculateSharedHash leaves the build
\* config out of the shared digest.
GenerateManifestWithoutConfig ==
    LET interfaces == IF rootExists THEN ToSet(DiscoverInterfaces) ELSE {}
    IN  [kind |-> "json",
         version |-> "1.0.0",
         sharedHash |-> SharedHashOf(shared, 0),
         bundles |-> [n \in {i \in interfaces : HasBundle(i)} |-> ManifestEntry(n)]]

\* A faulty generator: it lists the units the run has just compiled and
\* drops the entries of the others.
GenerateManifestOfBuiltOnly ==
    LET interfaces == IF rootExists THEN ToSet(DiscoverInterfaces) ELSE {}
    IN  [kind |-> "json",
         version |-> "1.0.0",
         sharedHash |-> CalculateSharedHash,
         bundles |-> [n \in {i \in interfaces : HasBundle(i) /\ i \in ToSet(built)}
                        |-> ManifestEntry(n)]]

\* A faulty generator: it keeps the entries of the manifest it replaces for
\* the units it does not list itself.
GenerateManifestMerging ==
    LET interfaces == IF rootExists THEN ToSet(DiscoverInterfaces) ELSE {}
        listed == {i \in interfaces : HasBundle(i)}
        kept == IF manifest.kind = "json" THEN DOMAIN manifest.bundles \ listed ELSE {}
    IN  [kind |-> "json",
         version |-> "1.0.0",
         sharedHash |-> CalculateSharedHash,
         bundles |-> [n \in listed \cup kept |->
                         IF n \in listed THEN ManifestEntry(n) ELSE manifest.bundles[n]]]

\* generateManifest of generate-bundle-manifest.js: its discoverInterfaces
\* gives no unit when src/interfaces/ is missing.
GenerateManifest ==
    LET interfaces == IF rootExists THEN ToSet(DiscoverInterfaces) ELSE {}
    IN  [kind |-> "json",
         version |-> "1.0.0",
         sharedHash |-> CalculateSharedHash,
         bundles |-> [n \in {i \in interfaces : HasBundle(i)} |-> ManifestEntry(n)]]

\* ---------------------------------------------------------- Change Detector
\* A faulty comparison: a unit without an entry is not taken as changed.
EntryChangedOnlyIfRecorded(m, n) ==
    /\ n \in DOMAIN m.bundles
    /\ m.bundles[n].sourceHash # HashDirectory(src[n])

\* Is the unit n changed against a manifest m that parsed?
EntryChanged(m, n) ==
    \/ n \notin DOMAIN m.bundles
    \/ m.bundles[n].sourceHash # HashDirectory(src[n])

\* detectChanges, interfaces being what its discoverInterfaces returned.
DetectChanges(interfaces) ==
    LET m == LoadManifest
    IN  IF m.kind # "json"
        THEN [changedInterfaces |-> interfaces, sharedChanged |-> FALSE,
              reason |-> "No manifest found"]
        ELSE IF m.sharedHash # CalculateSharedHash
        THEN [changedInterfaces |-> interfaces, sharedChanged |-> TRUE,
              reason |-> "Shared dependencies changed"]
        ELSE [changedInterfaces |-> SelectSeq(interfaces, LAMBDA n : EntryChanged(m, n)),
              sharedChanged |-> FALSE,
              reason |-> "per interface"]

NoDetect == [kind |-> "none"]
NoGen == [kind |-> "none"]

\* A faulty detector: loadManifest lets the JSON.parse error through and the
\* script exits 1 on an unparseable manifest.
DetectorProcessNoCatch(interfaces) ==
    IF ~rootExists \/ manifest.kind = "corrupt"
    THEN [kind |-> "result", exit |-> 1, stdout |-> <<>>, sharedChanged |-> FALSE,
          after |-> "none"]
    ELSE LET r == DetectChanges(interfaces)
         IN  [kind |-> "result", exit |-> 0, stdout |-> r.changedInterfaces,
              sharedChanged |-> r.sharedChanged, after |-> "none"]

\* The detector script as a process: exit 1 when src/interfaces/ is
\* missing, else the changed list on stdout and exit 0.  (after: the
\* command of the orchestrator run that had just built and written the
\* manifest when a standalone detector run started, if any.)
DetectorProcess(interfaces) ==
    IF ~rootExists
    THEN [kind |-> "result", exit |-> 1, stdout |-> <<>>, sharedChanged |-> FALSE,
          after |-> "none"]
    ELSE LET r == DetectChanges(interfaces)
         IN  [kind |-> "result", exit |-> 0, stdout |-> r.changedInterfaces,
              sharedChanged |-> r.sharedChanged, after |-> "none"]

\* -------------------------------------------------------- Build Orchestrator
\* parseArgs: --only=<names> (or no --only), --changed, --force.
NoOnly == [given |-> FALSE, names |-> {}]
OnlyLists ==
    {[given |-> TRUE, names |-> S] :
        S \in {{"dashboard"}, {"widget"}, {"widget", "_template"}}}
\* The command lines tried: every --only list alone, and every combination
\* of --changed and --force with no --only list or an unknown name in it.
ArgSets ==
    [only : OnlyLists, changed : {FALSE}, force : {FALSE}]
    \cup [only : {NoOnly, [given |-> TRUE, names |-> {"_template"}]},
          changed : BOOLEAN, force : BOOLEAN]

\* args.changed && !args.force: the run asks the detector.
UsesDetector(args) == args.changed /\ ~args.force

\* getChangedInterfaces: the detector's stdout parsed, or null when the
\* detector process fails.
GetChangedInterfaces(interfaces, detectorRuns) ==
    LET p == DetectorProcess(interfaces)
    IN  IF detectorRuns /\ p.exit = 0
        THEN [null |-> FALSE, names |-> p.stdout]
        ELSE [null |-> TRUE, names |-> <<>>]

\* A faulty filter: an empty changed list does not skip the build.
SelectInterfacesNoSkip(args, interfaces, detectorRuns) ==
    IF UsesDetector(args)
    THEN LET changedNames == GetChangedInterfaces(interfaces, detectorRuns)
         IN  IF changedNames.null \/ changedNames.names = <<>>
             THEN [do |-> "build", list |-> interfaces]
             ELSE [do |-> "build",
                   list |-> SelectSeq(interfaces,
                                      LAMBDA i : i \in ToSet(changedNames.names))]
    ELSE IF args.only.given /\ ~args.force
    THEN LET invalidNames == args.only.names \ ToSet(interfaces)
         IN  IF invalidNames # {}
             THEN [do |-> "exit1", list |-> <<>>]
             ELSE [do |-> "build",
                   list |-> SelectSeq(interfaces, LAMBDA i : i \in args.only.names)]
    ELSE [do |-> "build", list |-> interfaces]

\* A faulty filter: the --only branch does not check the requested names.
SelectInterfacesUnchecked(args, interfaces, detectorRuns) ==
    IF UsesDetector(args)
    THEN LET changedNames == GetChangedInterfaces(interfaces, detectorRuns)
         IN  IF changedNames.null
             THEN [do |-> "build", list |-> interfaces]
             ELSE IF changedNames.names = <<>>
             THEN [do |-> "skip", list |-> <<>>]
             ELSE [do |-> "build",
                   list |-> SelectSeq(interfaces,
                                      LAMBDA i : i \in ToSet(changedNames.names))]
    ELSE IF args.only.given /\ ~args.force
    THEN [do |-> "build",
          list |-> SelectSeq(interfaces, LAMBDA i : i \in args.only.names)]
    ELSE [do |-> "build", list |-> interfaces]

\* The filter of main (lines 192-229): what the run goes on to do with the
\* discovered interfaces.
SelectInterfaces(args, interfaces, detectorRuns) ==
    IF UsesDetector(args)
    THEN LET changedNames == GetChangedInterfaces(interfaces, detectorRuns)
         IN  IF changedNames.null
             THEN [do |-> "build", list |-> interfaces]
             ELSE IF changedNames.names = <<>>
             THEN [do |-> "skip", list |-> <<>>]
             ELSE [do |-> "build",
                   list |-> SelectSeq(interfaces,
                                      LAMBDA i : i \in ToSet(changedNames.names))]
    ELSE IF args.only.given /\ ~args.force
    THEN LET invalidNames == args.only.names \ ToSet(interfaces)
         IN  IF invalidNames # {}
             THEN [do |-> "exit1", list |-> <<>>]
             ELSE [do |-> "build",
                   list |-> SelectSeq(interfaces, LAMBDA i : i \in args.only.names)]
    ELSE [do |-> "build", list |-> interfaces]

\* A faulty orchestrator: it never clears the output directory.
ClearsBundlesNever(args) == FALSE

\* A faulty orchestrator: a --changed run clears the output directory too.
ClearsBundlesUnlessOnly(args) == ~args.only.given

\* "Clear existing bundles only if building all (not selective)"
ClearsBundles(args) == ~args.only.given /\ ~args.changed

NoRun == [kind |-> "none"]

\* The record of a run that starts: its arguments, whether its --only
\* list names something that is no discovered unit, how its detector
\* process went, and the manifest it found.
NewRun(args, interfaces, detectorRuns) ==
    [kind |-> "run",
     only |-> args.only.given, changed |-> args.changed, force |-> args.force,
     unknown |-> args.only.given /\ (args.only.names \ ToSet(interfaces)) # {},
     detector |-> IF UsesDetector(args) /\ interfaces # <<>>
                     THEN (IF detectorRuns THEN "ok" ELSE "failed")
                     ELSE "none",
     selected |-> <<>>,
     failed |-> FALSE,
     before |-> manifest]

\* The branch of the filter a command line takes: no flag at all,
\* --changed without --force, --only alone, or --force with anything.
CommandOf(r) ==
    IF ~r.only /\ ~r.changed /\ ~r.force THEN "all"
    ELSE IF r.changed /\ ~r.force THEN "changed"
    ELSE IF r.only /\ ~r.force THEN "only"
    ELSE "force"

\* What stays known of a run once its process has ended, until the next
\* process starts or the working tree is edited: its command line, its exit
\* code, whether the bundler failed and what became of the manifest
\* regeneration.
Ended(r, code, regenerated) ==
    [kind |-> "ended", command |-> CommandOf(r), unknown |-> r.unknown,
     exit |-> code, failed |-> r.failed, manifest |-> regenerated]

\* main up to the build loop: parseArgs, discoverInterfaces, the filter,
\* the clearing of the output directory.
StartRun(args, interfaces, detectorRuns) ==
    /\ pc = "idle"
    /\ detectOut' = NoDetect
    /\ genOut' = NoGen
    /\ built' = <<>>
    /\ UNCHANGED <<studyVars, fsVars, manifest, clock>>
    /\ LET r == NewRun(args, interfaces, detectorRuns)
           sel == SelectInterfaces(args, interfaces, detectorRuns)
       IN  IF ~rootExists
           THEN /\ run' = Ended(r, 1, "none")
                /\ UNCHANGED <<pc, out>>
           ELSE IF interfaces = <<>>
           THEN /\ run' = Ended(r, 0, "none")
                /\ UNCHANGED <<pc, out>>
           ELSE IF sel.do = "skip"
           THEN /\ run' = Ended(r, 0, "none")
                /\ UNCHANGED <<pc, out>>
           ELSE IF sel.do = "exit1"
           THEN /\ run' = Ended(r, 1, "none")
                /\ UNCHANGED <<pc, out>>
           ELSE /\ run' = [r EXCEPT !.selected = sel.list]
                /\ out' = IF ClearsBundles(args)
                             THEN [n \in UnitNames |-> NoFile]
                             ELSE out
                /\ pc' = "build"

\* A faulty build loop: it goes through the list from its end.
NextUnitFromEnd == run.selected[Len(run.selected) - Len(built)]

\* The unit the build loop is at.
NextUnit == run.selected[Len(built) + 1]

\* buildInterface succeeds: the bundler writes public/bundles/<name>.js.
BuildInterfaceOk ==
    /\ pc = "build"
    /\ clock < MaxClock
    /\ clock' = clock + 1
    /\ out' = [out EXCEPT ![NextUnit] = BundleOf(src[NextUnit], shared, cfg, clock + 1)]
    /\ built' = Append(built, NextUnit)
    /\ pc' = IF Len(built') = Len(run.selected) THEN "manifest" ELSE "build"
    /\ detectOut' = NoDetect
    /\ genOut' = NoGen
    /\ UNCHANGED <<studyVars, fsVars, manifest, run>>

\* A faulty orchestrator: the bundler's failure ends the run with exit
\* code 0.
BuildInterfaceFailsExitZero ==
    /\ pc = "build"
    /\ run' = Ended([run EXCEPT !.failed = TRUE], 0, "none")
    /\ pc' = "idle"
    /\ built' = <<>>
    /\ detectOut' = NoDetect
    /\ genOut' = NoGen
    /\ UNCHANGED <<studyVars, fsVars, out, manifest, clock>>

\* A faulty loop: it notes the failure and goes on with the next unit.
BuildInterfaceFailsAndGoesOn ==
    /\ pc = "build"
    /\ run' = [run EXCEPT !.failed = TRUE]
    /\ built' = Append(built, NextUnit)
    /\ pc' = IF Len(built') = Len(run.selected) THEN "manifest" ELSE "build"
    /\ detectOut' = NoDetect
    /\ genOut' = NoGen
    /\ UNCHANGED <<studyVars, fsVars, out, manifest, clock>>

\* buildInterface throws: main().catch exits 1.
BuildInterfaceFails ==
    /\ pc = "build"
    /\ run' = Ended([run EXCEPT !.failed = TRUE], 1, "none")
    /\ pc' = "idle"
    /\ built' = <<>>
    /\ detectOut' = NoDetect
    /\ genOut' = NoGen
    /\ UNCHANGED <<studyVars, fsVars, out, manifest, clock>>

\* generateManifest of the orchestrator, the generator process succeeding:
\* writeManifest replaces manifest.json.
RegenerateManifestOk ==
    /\ pc = "manifest"
    /\ manifest' = GenerateManifest
    /\ run' = Ended(run, 0, "written")
    /\ pc' = "idle"
    /\ built' = <<>>
    /\ detectOut' = NoDetect
    /\ genOut' = NoGen
    /\ UNCHANGED <<studyVars, fsVars, out, clock>>

\* A faulty orchestrator: a failure of the generator process is fatal.
RegenerateManifestFailsFatally ==
    /\ pc = "manifest"
    /\ run' = Ended(run, 1, "failed")
    /\ pc' = "idle"
    /\ built' = <<>>
    /\ detectOut' = NoDetect
    /\ genOut' = NoGen
    /\ UNCHANGED <<studyVars, fsVars, out, manifest, clock>>

\* generateManifest of the orchestrator, the generator process failing: a
\* warning, and the run still ends normally.
RegenerateManifestFails ==
    /\ pc = "manifest"
    /\ run' = Ended(run, 0, "failed")
    /\ pc' = "idle"
    /\ built' = <<>>
    /\ detectOut' = NoDetect
    /\ genOut' = NoGen
    /\ UNCHANGED <<studyVars, fsVars, out, manifest, clock>>

\* The command of a run that ended having built what it selected and
\* written the manifest; "none" for any other run.
BuiltAndRecorded(r) ==
    IF r.kind = "ended" /\ r.exit = 0 /\ r.manifest = "written"
    THEN r.command ELSE "none"

\* A faulty detector: it brings the manifest up to date after reporting.
DetectRunRecording(interfaces) ==
    /\ pc = "idle"
    /\ detectOut' = [DetectorProcess(interfaces) EXCEPT !.after = BuiltAndRecorded(run)]
    /\ genOut' = NoGen
    /\ run' = NoRun
    /\ manifest' = IF rootExists THEN GenerateManifest ELSE manifest
    /\ UNCHANGED <<studyVars, fsVars, out, clock, pc, built>>

\* node scripts/detect-changed-interfaces.js, run on its own.
DetectRun(interfaces) ==
    /\ pc = "idle"
    /\ detectOut' = [DetectorProcess(interfaces) EXCEPT !.after = BuiltAndRecorded(run)]
    /\ genOut' = NoGen
    /\ run' = NoRun
    /\ UNCHANGED <<studyVars, fsVars, out, manifest, clock, pc, built>>

\* node scripts/generate-bundle-manifest.js, run on its own: the manifest
\* is generated and written, exit code 0.
GenerateRun ==
    /\ pc = "idle"
    /\ manifest' = GenerateManifest
    /\ genOut' = [kind |-> "result", exit |-> 0]
    /\ run' = NoRun
    /\ detectOut' = NoDetect
    /\ UNCHANGED <<studyVars, fsVars, out, clock, pc, built>>

\* The same, generateManifest or writeManifest throwing: exit code 1.
GenerateRunFails ==
    /\ pc = "idle"
    /\ genOut' = [kind |-> "result", exit |-> 1]
    /\ run' = NoRun
    /\ detectOut' = NoDetect
    /\ UNCHANGED <<studyVars, fsVars, out, manifest, clock, pc, built>>

\* ------------------------------------------------------------- environment
\* Edits of the working tree, made between runs.
Forget ==
    /\ edits < MaxEdits
    /\ edits' = edits + 1
    /\ run' = NoRun
    /\ built' = <<>>
    /\ detectOut' = NoDetect
    /\ genOut' = NoGen
    /\ UNCHANGED <<studyVars, out, manifest, clock, pc>>

\* index.tsx of a unit is written (the unit directory is made if needed).
WriteIndex(n, v) ==
    /\ pc = "idle" /\ rootExists
    /\ src[n] # UnitDir(v)
    /\ src' = [src EXCEPT ![n] = UnitDir(v)]
    /\ UNCHANGED <<rootExists, shared, cfg>>
    /\ Forget

\* index.tsx of a unit is deleted.
DeleteIndex(n) ==
    /\ pc = "idle"
    /\ src[n].isDir /\ src[n].index # 0
    /\ src' = [src EXCEPT ![n] = UnitDir(0)]
    /\ UNCHANGED <<rootExists, shared, cfg>>
    /\ Forget

\* The file under src/shared/ is edited.
EditShared(v) ==
    /\ pc = "idle"
    /\ shared # v
    /\ shared' = v
    /\ UNCHANGED <<rootExists, src, cfg>>
    /\ Forget

\* vite.widget.config.ts is deleted (0) or put back.
EditConfig(v) ==
    /\ pc = "idle"
    /\ cfg # v
    /\ cfg' = v
    /\ UNCHANGED <<rootExists, src, shared>>
    /\ Forget

\* src/interfaces/ is removed with all it holds.
RemoveRoot ==
    /\ pc = "idle" /\ rootExists
    /\ rootExists' = FALSE
    /\ src' = [n \in DirNames |-> NoDir]
    /\ UNCHANGED <<shared, cfg>>
    /\ Forget

\* ------------------------------------------------------------ specification
\* A checkout: the template and the unit directories in place, each unit
\* with or without its index.tsx, nothing built, the manifest missing or
\* unreadable.
Init ==
    /\ rootExists = TRUE
    /\ src \in {f \in [DirNames -> {UnitDir(0), UnitDir(1)}] : f["_template"] = UnitDir(1)}
    /\ shared = 1
    /\ cfg = 1
    /\ out = [n \in UnitNames |-> NoFile]
    /\ manifest \in {NoManifest, CorruptManifest}
    /\ clock = 0
    /\ pc = "idle"
    /\ built = <<>>
    /\ run = NoRun
    /\ detectOut = NoDetect
    /\ genOut = NoGen
    /\ edits = 0
    /\ tree = <<>>
    /\ readdir = <<>>
    /\ dirHash = <<>>
    /\ rootDir = <<>>
    /\ discovered = <<>>
    /\ unitDirs = <<>>
    /\ ifaces = <<>>
    /\ widget = <<>>

Run ==
    \E args \in ArgSets :
        \E detectorRuns \in IF UsesDetector(args) THEN BOOLEAN ELSE {TRUE} :
            StartRun(args, DiscoverInterfaces, detectorRuns)

Detect == DetectRun(DiscoverInterfaces)

Edit ==
    \/ \E n \in UnitNames, v \in Versions : WriteIndex(n, v)
    \/ \E n \in UnitNames : DeleteIndex(n)
    \/ \E v \in Versions : EditShared(v)
    \/ \E v \in CfgVersions : EditConfig(v)
    \/ RemoveRoot

Next ==
    \/ Run
    \/ BuildInterfaceOk
    \/ BuildInterfaceFails
    \/ RegenerateManifestOk
    \/ RegenerateManifestFails
    \/ Detect
    \/ GenerateRun
    \/ GenerateRunFails
    \/ Edit

Spec == Init /\ [][Next]_vars

\* ---------------------------------------------- edits while a run goes on
\* index.tsx of a unit the running orchestrator has already compiled is
\* written again, before the run has come to regenerate the manifest.
EditDuringRun ==
    /\ pc \in {"build", "manifest"}
    /\ edits < MaxEdits
    /\ edits' = edits + 1
    /\ \E n \in ToSet(built), v \in Versions :
           /\ src[n] # UnitDir(v)
           /\ src' = [src EXCEPT ![n] = UnitDir(v)]
    /\ UNCHANGED <<studyVars, rootExists, shared, cfg, out, manifest, clock, pc,
                   built, run, detectOut, genOut>>

\* The pipeline on a working tree that is edited at any time.
RaceNext ==
    \/ Next
    \/ EditDuringRun

RaceSpec == Init /\ [][RaceNext]_vars

\* ------------------------------------------------- digest of a directory
\* hashDirectory as a function of a tree of several files.  A path and a
\* hex digest are sequences of characters; sha256 of a file's content is a
\* hex string of fixed length, different for different contents; the digest
\* of the directory is Sha256 of the characters fed to hash.update, in order.

\* A tree holds at most MaxFiles files.
MaxFiles == 2

\* UTF-16 code units of the characters in use (Array.prototype.sort with no
\* comparator orders strings by them).
CodeUnit == [c \in {"/", "0", ":", "a", "d", "u", "v"} |->
                CASE c = "/" -> 47 [] c = "0" -> 48 [] c = ":" -> 58
                  [] c = "a" -> 97 [] c = "d" -> 100 [] c = "u" -> 117
                  [] c = "v" -> 118]

\* The file names of the study; some hold ':' and hex digits, as the text
\* fed to the hash does.
FileNames == {<<"0">>, <<"a">>, <<":">>, <<"a", ":">>, <<":", "0">>, <<"0", "a">>}
\* The one sub-directory a tree may have, and the file names in it.
SubDir == <<"d">>
SubFileNames == {<<"0">>, <<"a">>}

\* path.join(dir, name)
PathJoin(dir, name) == dir \o <<"/">> \o name

\* The relative paths a file of a tree can have.
RelPaths == FileNames \cup {PathJoin(SubDir, n) : n \in SubFileNames}

\* The two places a tree is kept at: unit "a" is the one edited, unit "b" a
\* copy checked out elsewhere.
HashUnits == {"a", "b"}
BaseDir == [u \in HashUnits |-> IF u = "a" THEN <<"u">> ELSE <<"v", "v">>]

\* A tree: a set of files [path, content] with distinct relative paths.
PathsOf(t) == {f.path : f \in t}
Trees ==
    {t \in SUBSET [path : RelPaths, content : Versions] :
        /\ Cardinality(t) <= MaxFiles
        /\ \A f, g \in t : f.path = g.path => f = g}

ContentAt(t, rel) == (CHOOSE f \in t : f.path = rel).content

\* The entries of the root of a tree and of its sub-directory.
RootEntries(t) ==
    (PathsOf(t) \cap FileNames)
        \cup (IF PathsOf(t) \ FileNames # {} THEN {SubDir} ELSE {})
SubEntries(t) == {n \in SubFileNames : PathJoin(SubDir, n) \in PathsOf(t)}

\* The orders fs.readdirSync may list a set of entries in.
Orders(S) == {s \in [1..Cardinality(S) -> S] : ToSet(s) = S}

\* Is p before q in code-unit order?
RECURSIVE Before(_, _)
Before(p, q) ==
    IF p = <<>> THEN q # <<>>
    ELSE IF q = <<>> THEN FALSE
    ELSE IF Head(p) = Head(q) THEN Before(Tail(p), Tail(q))
    ELSE CodeUnit[Head(p)] < CodeUnit[Head(q)]

\* files.sort()
RECURSIVE SortInsert(_, _)
SortInsert(p, sorted) ==
    IF sorted = <<>> THEN <<p>>
    ELSE IF Before(p, Head(sorted)) THEN <<p>> \o sorted
    ELSE <<Head(sorted)>> \o SortInsert(p, Tail(sorted))

RECURSIVE SortPaths(_)
SortPaths(files) ==
    IF files = <<>> THEN <<>>
    ELSE SortInsert(Head(files), SortPaths(Tail(files)))

\* getAllFiles(dir): the loop over the entries readdir gives, going down
\* into a directory where it meets one.  rd.exists is what existsSync(dir)
\* returns, rd.root and rd.sub are what readdirSync returns for the root
\* and for the sub-directory.
RECURSIVE WalkEntries(_, _, _)
WalkEntries(dir, entries, rd) ==
    IF entries = <<>> THEN <<>>
    ELSE LET fullPath == PathJoin(dir, Head(entries))
         IN  (IF Head(entries) = SubDir
                 THEN WalkEntries(fullPath, rd.sub, rd)
                 ELSE <<fullPath>>)
             \o WalkEntries(dir, Tail(entries), rd)

GetAllFilesOf(dir, rd) ==
    IF ~rd.exists THEN <<>> ELSE WalkEntries(dir, rd.root, rd)

\* path.relative(dir, file), file being under dir
PathRelative(dir, file) == SubSeq(file, Len(dir) + 2, Len(file))

\* A faulty hashFile: a file that cannot be read hashes as an empty one.
HexDigestOfUnreadable(content) ==
    CASE content = 1 -> <<"0">>
      [] content = 2 -> <<"a">>
      [] OTHER -> <<"e">>

\* hashFile(file) as the hex string it returns; <<>> is null, returned for
\* a file that cannot be read (content 0).
HexDigest(content) ==
    CASE content = 1 -> <<"0">>
      [] content = 2 -> <<"a">>
      [] OTHER -> <<>>

\* A faulty update: the relative path is left out.
UpdateWithoutPath(relativePath, fileHash) == fileHash

\* `${relativePath}:${fileHash}`
UpdateOf(relativePath, fileHash) == relativePath \o <<":">> \o fileHash

\* The loop of hashDirectory: the characters fed to the hash.
RECURSIVE HashFed(_, _, _)
HashFed(dir, files, t) ==
    IF files = <<>> THEN <<>>
    ELSE LET relativePath == PathRelative(dir, Head(files))
             fileHash == HexDigest(ContentAt(t, relativePath))
         IN  (IF fileHash # <<>> THEN UpdateOf(relativePath, fileHash) ELSE <<>>)
             \o HashFed(dir, Tail(files), t)

\* A faulty hashDirectory: the files are hashed in the order found.
HashDirectoryUnsorted(dir, rd, t) ==
    Sha256(HashFed(dir, GetAllFilesOf(dir, rd), t))

\* hashDirectory(dir)
HashDirectoryOf(dir, rd, t) ==
    Sha256(HashFed(dir, SortPaths(GetAllFilesOf(dir, rd)), t))

NotHashed == [sha256 |-> <<"-">>]

\* hashDirectory is called on the tree of unit u.
HashDirectoryRun(u) ==
    /\ dirHash' = [dirHash EXCEPT ![u] = HashDirectoryOf(BaseDir[u], readdir[u], tree[u])]
    /\ UNCHANGED <<buildVars, discoveryVars, nameVars, widget, tree, readdir>>

\* The file system comes to list the entries of unit a's tree in another
\* order.
Reenumerate ==
    /\ \E r \in Orders(RootEntries(tree["a"])), s \in Orders(SubEntries(tree["a"])) :
           /\ [readdir["a"] EXCEPT !.root = r, !.sub = s] # readdir["a"]
           /\ readdir' = [readdir EXCEPT !["a"] = [@ EXCEPT !.root = r, !.sub = s]]
    /\ UNCHANGED <<buildVars, discoveryVars, nameVars, widget, tree, dirHash>>

\* The entries of a tree, each directory sorted by name.
SortedListing(t) ==
    [exists |-> TRUE,
     root |-> CHOOSE r \in Orders(RootEntries(t)) : r = SortPaths(r),
     sub  |-> CHOOSE s \in Orders(SubEntries(t)) : s = SortPaths(s)]

\* The tree of unit a becomes t: its digest is no longer known, its entries
\* are listed in some order.
TreeBecomes(t) ==
    /\ tree["a"] = tree["b"]
    /\ tree' = [tree EXCEPT !["a"] = t]
    /\ \E r \in Orders(RootEntries(t)), s \in Orders(SubEntries(t)) :
           readdir' = [readdir EXCEPT !["a"] = [exists |-> TRUE, root |-> r, sub |-> s]]
    /\ dirHash' = [dirHash EXCEPT !["a"] = NotHashed]
    /\ UNCHANGED <<buildVars, discoveryVars, nameVars, widget>>

\* One file of unit a's tree gets another content.
EditFile ==
    \E f \in tree["a"] : \E c \in Versions \ {f.content} :
        TreeBecomes((tree["a"] \ {f}) \cup {[f EXCEPT !.content = c]})

\* One file of unit a's tree is renamed or moved, its bytes kept.
RenameFile ==
    \E f \in tree["a"], p \in RelPaths \ PathsOf(tree["a"]) :
        TreeBecomes((tree["a"] \ {f}) \cup {[f EXCEPT !.path = p]})

\* One file of unit a's tree can no longer be read.
MakeUnreadable ==
    \E f \in tree["a"] :
        TreeBecomes((tree["a"] \ {f}) \cup {[f EXCEPT !.content = 0]})

\* The directory of unit a is removed with all it holds.
RemoveDirectory ==
    /\ tree["a"] = tree["b"]
    /\ tree' = [tree EXCEPT !["a"] = {}]
    /\ readdir' = [readdir EXCEPT !["a"] = [exists |-> FALSE, root |-> <<>>, sub |-> <<>>]]
    /\ dirHash' = [dirHash EXCEPT !["a"] = NotHashed]
    /\ UNCHANGED <<buildVars, discoveryVars, nameVars, widget>>

\* Any tree, unit b holding the same files as unit a; the entries of a in
\* any order, those of b sorted by name.
HashInit ==
    /\ rootExists = TRUE
    /\ src = [n \in DirNames |-> UnitDir(1)]
    /\ shared = 1
    /\ cfg = 1
    /\ out = [n \in UnitNames |-> NoFile]
    /\ manifest = NoManifest
    /\ clock = 0
    /\ pc = "idle"
    /\ built = <<>>
    /\ run = NoRun
    /\ detectOut = NoDetect
    /\ genOut = NoGen
    /\ edits = 0
    /\ \E t \in Trees :
           /\ tree = [u \in HashUnits |-> t]
           /\ \E r \in Orders(RootEntries(t)), s \in Orders(SubEntries(t)) :
                  readdir = [u \in HashUnits |->
                                IF u = "a" THEN [exists |-> TRUE, root |-> r, sub |-> s]
                                ELSE SortedListing(t)]
    /\ dirHash = [u \in HashUnits |-> NotHashed]
    /\ rootDir = <<>>
    /\ discovered = <<>>
    /\ unitDirs = <<>>
    /\ ifaces = <<>>
    /\ widget = <<>>

HashNext ==
    \/ \E u \in HashUnits : HashDirectoryRun(u)
    \/ Reenumerate
    \/ EditFile
    \/ RenameFile
    \/ MakeUnreadable
    \/ RemoveDirectory

HashSpec == HashInit /\ [][HashNext]_vars

\* --------------------------------------------------- discovery of the units
\* discoverInterfaces as a function of what src/interfaces/ holds: entries
\* that are files, hidden entries, directories with and without index.tsx,
\* and directories holding a sub-directory that has an index.tsx of its own.
\* A name is a sequence of characters.

\* The names an entry of src/interfaces/ may have, in the order
\* fs.readdirSync lists them.
EntryOrder ==
    << <<".", "g">>, <<"_", "t">>, <<"a", "_", "b">>, <<"c", ".", "d">>, <<"w">> >>
EntryNames == ToSet(EntryOrder)

\* What a name of src/interfaces/ stands for: nothing, a file, or a
\* directory, with or without index.tsx in it, with or without a
\* sub-directory that holds an index.tsx.
NoEntry == [kind |-> "none", index |-> FALSE, nested |-> FALSE]
FileEntry == [kind |-> "file", index |-> FALSE, nested |-> FALSE]
DirEntries == [kind : {"dir"}, index : BOOLEAN, nested : BOOLEAN]
Entries == {NoEntry, FileEntry} \cup DirEntries

\* fs.readdirSync(INTERFACES_DIR)
ReadDirSync(root) == SelectSeq(EntryOrder, LAMBDA entry : root[entry].kind # "none")

\* entry.startsWith(c)
StartsWith(entry, c) == entry # <<>> /\ Head(entry) = c

\* A faulty filter: hidden entries are not skipped.
SkippedUnderscoreOnly(entry) == StartsWith(entry, "_")

\* entry.startsWith('_') || entry.startsWith('.')
Skipped(entry) == StartsWith(entry, "_") \/ StartsWith(entry, ".")

\* fs.statSync(entryPath).isDirectory()
IsDirectory(root, entry) == root[entry].kind = "dir"

\* fs.existsSync(path.join(entryPath, 'index.tsx'))
IndexExists(root, entry) == root[entry].kind = "dir" /\ root[entry].index

\* The loop of discoverInterfaces: the names it pushes.
DiscoverInterfacesIn(root) ==
    SelectSeq(ReadDirSync(root),
              LAMBDA entry : /\ ~Skipped(entry)
                             /\ IsDirectory(root, entry)
                             /\ IndexExists(root, entry))

Scripts == {"orchestrator", "detector", "generator"}
NotDiscovered == [by |-> "none", names |-> <<>>]

\* discoverInterfaces of one of the three scripts is called.
DiscoverInterfacesRun(script) ==
    /\ discovered' = [by |-> script, names |-> DiscoverInterfacesIn(rootDir)]
    /\ UNCHANGED <<buildVars, hashVars, nameVars, widget, rootDir>>

\* An entry of src/interfaces/ is made, removed or changed.
ChangeEntry ==
    /\ \E entry \in EntryNames : \E e \in Entries \ {rootDir[entry]} :
           rootDir' = [rootDir EXCEPT ![entry] = e]
    /\ discovered' = NotDiscovered
    /\ UNCHANGED <<buildVars, hashVars, nameVars, widget>>

\* src/interfaces/ holding anything.
DiscoveryInit ==
    /\ rootExists = TRUE
    /\ src = [n \in DirNames |-> UnitDir(1)]
    /\ shared = 1
    /\ cfg = 1
    /\ out = [n \in UnitNames |-> NoFile]
    /\ manifest = NoManifest
    /\ clock = 0
    /\ pc = "idle"
    /\ built = <<>>
    /\ run = NoRun
    /\ detectOut = NoDetect
    /\ genOut = NoGen
    /\ edits = 0
    /\ tree = <<>>
    /\ readdir = <<>>
    /\ dirHash = <<>>
    /\ rootDir \in [EntryNames -> Entries]
    /\ discovered = NotDiscovered
    /\ unitDirs = <<>>
    /\ ifaces = <<>>
    /\ widget = <<>>

DiscoveryNext ==
    \/ \E script \in Scripts : DiscoverInterfacesRun(script)
    \/ ChangeEntry

DiscoverySpec == DiscoveryInit /\ [][DiscoveryNext]_vars

\* ------------------------------------------------- global name of a unit
\* The globalName discoverInterfaces of build-interfaces.js derives from a
\* directory name.  A name is a sequence of characters.

\* String.prototype.toUpperCase on one character.
ToUpperCase(c) ==
    CASE c = "a" -> "A" [] c = "b" -> "B" [] c = "c" -> "C" [] c = "d" -> "D"
      [] c = "e" -> "E" [] c = "g" -> "G" [] c = "i" -> "I" [] c = "l" -> "L"
      [] c = "m" -> "M" [] c = "n" -> "N" [] c = "o" -> "O" [] c = "t" -> "T"
      [] c = "w" -> "W" [] c = "x" -> "X" [] c = "y" -> "Y"
      [] OTHER -> c

\* entry.split(sep): the parts between the separators, empty ones included.
RECURSIVE Split(_, _)
Split(entry, sep) ==
    IF \A i \in DOMAIN entry : entry[i] # sep THEN <<entry>>
    ELSE LET i == CHOOSE k \in DOMAIN entry :
                      entry[k] = sep /\ \A j \in 1..(k - 1) : entry[j] # sep
         IN  <<SubSeq(entry, 1, i - 1)>> \o Split(SubSeq(entry, i + 1, Len(entry)), sep)

\* A faulty capitalisation: the part is left as it is.
NotCapitalized(part) == part

\* part.charAt(0).toUpperCase() + part.slice(1)
Capitalize(part) ==
    IF part = <<>> THEN <<>> ELSE <<ToUpperCase(Head(part))>> \o Tail(part)

\* parts.join('')
RECURSIVE Join(_)
Join(parts) ==
    IF parts = <<>> THEN <<>> ELSE Head(parts) \o Join(Tail(parts))

Widget == <<"w", "i", "d", "g", "e", "t">>
NextWidgetName == <<"N", "e", "x", "t", "W", "i", "d", "g", "e", "t">>

\* globalName of an entry: kebab-case to PascalCase, "widget" being
\* NextWidget.
GlobalNameOf(entry) ==
    IF entry = Widget THEN NextWidgetName
    ELSE LET parts == Split(entry, "-")
         IN  Join([i \in DOMAIN parts |-> Capitalize(parts[i])])

\* The directory names of the study: the documented ones, a snake-case one,
\* and every name of one or two characters of a, b, '-' and '_' that
\* discovery does not skip.
ShortNames ==
    LET A == {"a", "b", "-", "_"}
    IN  {s \in {<<x>> : x \in A} \cup {<<x, y>> : x \in A, y \in A} : ~Skipped(s)}
LongNames ==
    {Widget, 
     <<"n", "e", "x", "t", "-", "w", "i", "d", "g", "e", "t">>, <<"m", "y", "-", "c", "o", "o", "l", "-", "w", "i", "d", "g", "e", "t">>,
     <<"m", "y", "_", "w", "i", "d", "g", "e", "t">>, <<"m", "y", "-", "w", "i", "d", "g", "e", "t">>}
UnitDirNames == ShortNames \cup LongNames

NoIfaces == {}

\* discoverInterfaces of build-interfaces.js over the unit directories: the
\* name and the globalName of each.
DiscoverGlobalNames ==
    /\ ifaces' = {[name |-> entry, globalName |-> GlobalNameOf(entry)] : entry \in unitDirs}
    /\ UNCHANGED <<buildVars, hashVars, discoveryVars, widget, unitDirs>>

\* A unit directory is renamed.
RenameUnitDir ==
    /\ \E old \in unitDirs, new \in UnitDirNames \ unitDirs :
           unitDirs' = (unitDirs \ {old}) \cup {new}
    /\ ifaces' = NoIfaces
    /\ UNCHANGED <<buildVars, hashVars, discoveryVars, widget>>

\* Two unit directories of any names.
NameInit ==
    /\ rootExists = TRUE
    /\ src = [n \in DirNames |-> UnitDir(1)]
    /\ shared = 1
    /\ cfg = 1
    /\ out = [n \in UnitNames |-> NoFile]
    /\ manifest = NoManifest
    /\ clock = 0
    /\ pc = "idle"
    /\ built = <<>>
    /\ run = NoRun
    /\ detectOut = NoDetect
    /\ genOut = NoGen
    /\ edits = 0
    /\ tree = <<>>
    /\ readdir = <<>>
    /\ dirHash = <<>>
    /\ rootDir = <<>>
    /\ discovered = <<>>
    /\ unitDirs \in {S \in SUBSET UnitDirNames : Cardinality(S) = 2}
    /\ ifaces = NoIfaces
    /\ widget = <<>>

NameNext ==
    \/ DiscoverGlobalNames
    \/ RenameUnitDir

NameSpec == NameInit /\ [][NameNext]_vars

\* ------------------------------------------------------ the mounted widget
\* NextWidget.mount of src/interfaces/widget/index.tsx and the API object it
\* returns, with the events BubbleEventEmitter dispatches on the document.

\* The widget dispatches at most MaxEvents events.
MaxEvents == 4

\* The events a caller sends through api.emit.
CallerEvents == {"action", "error"}

NotMounted ==
    [phase |-> "new", shadow |-> FALSE, root |-> FALSE, timer |-> "none",
     props |-> 0, rendered |-> 0, events |-> <<>>]

\* eventEmitter.emit(event, payload): document.dispatchEvent of
\* `${eventPrefix}:${event}`.
EmitEvent(w, event) == [w EXCEPT !.events = Append(@, event)]

\* render(): nothing once root is null.
Render(w) == IF w.root THEN [w EXCEPT !.rendered = w.props] ELSE w

\* mount(container, config): the React root is made and rendered and the
\* ready callback is handed to setTimeout(..., 0).
Mount ==
    /\ widget.phase = "new"
    /\ \E shadow \in BOOLEAN, p \in Versions :
           widget' = Render([widget EXCEPT !.phase = "mounted", !.shadow = shadow,
                                           !.root = TRUE, !.props = p,
                                           !.timer = "pending"])
    /\ UNCHANGED <<buildVars, hashVars, discoveryVars, nameVars>>

\* The callback of setTimeout runs: eventEmitter.emit('ready', ...).
ReadyTimerFires ==
    /\ widget.timer = "pending"
    /\ Len(widget.events) < MaxEvents
    /\ widget' = [EmitEvent(widget, "ready") EXCEPT !.timer = "fired"]
    /\ UNCHANGED <<buildVars, hashVars, discoveryVars, nameVars>>

\* api.update(newProps)
Update ==
    /\ widget.phase = "mounted"
    /\ \E p \in Versions \ {widget.props} :
           widget' = Render([widget EXCEPT !.props = p])
    /\ UNCHANGED <<buildVars, hashVars, discoveryVars, nameVars>>

\* api.unmount(): the unmount event is dispatched, the React root is
\* unmounted and dropped, the DOM is cleaned.
Unmount ==
    /\ widget.phase = "mounted"
    /\ Len(widget.events) < MaxEvents
    /\ widget' = [EmitEvent(widget, "unmount") EXCEPT !.root = FALSE]
    /\ UNCHANGED <<buildVars, hashVars, discoveryVars, nameVars>>

\* api.emit(eventName, payload)
Emit ==
    /\ widget.phase = "mounted"
    /\ Len(widget.events) < MaxEvents
    /\ \E event \in CallerEvents : widget' = EmitEvent(widget, event)
    /\ UNCHANGED <<buildVars, hashVars, discoveryVars, nameVars>>

\* The bundle is loaded and nothing is mounted yet.
WidgetInit ==
    /\ rootExists = TRUE
    /\ src = [n \in DirNames |-> UnitDir(1)]
    /\ shared = 1
    /\ cfg = 1
    /\ out = [n \in UnitNames |-> NoFile]
    /\ manifest = NoManifest
    /\ clock = 0
    /\ pc = "idle"
    /\ built = <<>>
    /\ run = NoRun
    /\ detectOut = NoDetect
    /\ genOut = NoGen
    /\ edits = 0
    /\ tree = <<>>
    /\ readdir = <<>>
    /\ dirHash = <<>>
    /\ rootDir = <<>>
    /\ discovered = <<>>
    /\ unitDirs = <<>>
    /\ ifaces = <<>>
    /\ widget = NotMounted

WidgetNext ==
    \/ Mount
    \/ ReadyTimerFires
    \/ Update
    \/ Unmount
    \/ Emit

WidgetSpec == WidgetInit /\ [][WidgetNext]_vars

\* ------------------------------------------------------------------ claims
\* A step in which a run regenerates the manifest and ends.
ManifestWritten ==
    pc = "manifest" /\ run'.kind = "ended" /\ run'.manifest = "written"

\* The unit u has an entry in a manifest m.
HasEntry(m, u) == m.kind = "json" /\ u \in DOMAIN m.bundles

\* C1: in every manifest a run writes, the entry of a unit holds the digest
\* of the sources that unit's bundle was last compiled from, and the entry of
\* a unit the run did not compile is the entry the manifest held before.
C1_EntryIsDigestOfLastBuild ==
    [][ManifestWritten =>
          \A u \in UnitNames :
              /\ HasEntry(manifest', u) =>
                     manifest'.bundles[u].sourceHash = HashDirectory(out'[u].src)
              /\ (HasEntry(manifest, u) /\ u \notin ToSet(built)) =>
                     (HasEntry(manifest', u)
                        /\ manifest'.bundles[u] = manifest.bundles[u])]_vars

\* C2: a unit whose bundle was compiled against shared sources other than
\* the current ones is in the changed set the detector reports.
C2_StaleSharedIsReported ==
    (detectOut.kind = "result" /\ detectOut.exit = 0) =>
        \A u \in ToSet(DiscoverInterfaces) :
            (HasBundle(u) /\ out[u].sharedAt # CalculateSharedHash)
                => u \in ToSet(detectOut.stdout)

\* C3: with no manifest the detector reports every discovered unit; run
\* right after a no-flag build that exited 0 and wrote the manifest, with no
\* edit in between, it reports none.
C3_FirstRunThenNothingChanged ==
    (detectOut.kind = "result" /\ detectOut.exit = 0) =>
        /\ manifest.kind = "absent" => detectOut.stdout = DiscoverInterfaces
        /\ detectOut.after = "all" => detectOut.stdout = <<>>

\* The detector has run right after a full build of two units.
C3_Witness ==
    /\ detectOut.kind = "result" /\ detectOut.exit = 0
    /\ detectOut.after = "all"
    /\ Len(DiscoverInterfaces) = 2
    /\ BundleFiles = ToSet(DiscoverInterfaces)
    /\ detectOut.stdout = <<>>

\* C4: when a --changed run has exited 0 (its detector and its manifest
\* regeneration having worked) and nothing is edited, a --changed run started
\* next, its detector working, ends at once with exit code 0 and never
\* reaches the bundler.
C4_SecondChangedRunIsNoOp ==
    [][(/\ pc = "idle"
        /\ run.kind = "ended" /\ run.command = "changed"
        /\ run.exit = 0 /\ run.manifest # "failed"
        /\ \/ run'.kind = "ended" /\ run'.command = "changed"
           \/ run'.kind = "run" /\ CommandOf(run') = "changed"
                                /\ run'.detector = "ok")
       => (pc' = "idle" /\ run'.kind = "ended" /\ run'.exit = 0)]_vars

\* A selective run is in progress: --only or --changed without --force,
\* building the units of run.selected and no other.
SelectiveRun ==
    /\ pc \in {"build", "manifest"}
    /\ run.kind = "run" /\ CommandOf(run) \in {"only", "changed"}

\* The unit B, not selected by the run in progress, has a bundle and a
\* manifest entry, and its sources are those its bundle was built from.
OtherUnitBuilt(B) ==
    /\ B \notin ToSet(run.selected)
    /\ B \in ToSet(DiscoverInterfaces)
    /\ HasBundle(B) /\ HasEntry(manifest, B)
    /\ src[B] = out[B].src

\* The step leaves B's output file and B's manifest entry as they were.
LeavesUntouched(B) ==
    /\ out'[B] = out[B]
    /\ HasEntry(manifest', B)
    /\ manifest'.bundles[B] = manifest.bundles[B]

EntryUpToDate(B) ==
    /\ manifest.bundles[B].builtAt = out[B].mtime
    /\ manifest.bundles[B].bundleSize = out[B].size
    /\ manifest.bundles[B].sourceHash = HashDirectory(src[B])

StartsRunWithUnknownName ==
    pc = "idle" /\ run'.kind \in {"run", "ended"} /\ run'.unknown

\* The run ends at once with exit code 1, the bundler not invoked and the
\* output directory (bundles and manifest) as it was.
RejectedAtOnce ==
    /\ pc' = "idle" /\ run'.kind = "ended" /\ run'.exit = 1
    /\ ~run'.failed
    /\ UNCHANGED <<out, manifest, clock>>

\* C6 as stated: every run whose --only list holds an unknown name exits 1
\* before any bundler invocation and without touching the output directory.
C6_UnknownNameRejected ==
    [][StartsRunWithUnknownName => RejectedAtOnce]_vars

\* C6 amended: so does every such run given neither --changed nor --force,
\* when discovery finds at least one unit.
C6_UnknownNameRejectedOnlyAlone ==
    [][(/\ StartsRunWithUnknownName
        /\ (IF run'.kind = "run" THEN CommandOf(run') ELSE run'.command) = "only"
        /\ DiscoverInterfaces # <<>>)
       => RejectedAtOnce]_vars

\* A run with --only alone naming an unknown unit has been rejected while
\* units were there to build and bundles and a manifest were in place.
C6_Witness ==
    /\ run.kind = "ended" /\ run.command = "only" /\ run.unknown
    /\ run.exit = 1
    /\ DiscoverInterfaces # <<>>
    /\ BundleFiles # {} /\ manifest.kind = "json"

\* C7: no run goes on after a bundler failure; the step in which the bundler
\* fails ends the run with exit code 1, the manifest not regenerated and
\* exactly as the run found it when it started.
C7_BundlerFailureIsFatal ==
    [][/\ (run'.kind = "run" => ~run'.failed)
       /\ (pc = "build" /\ run'.kind \in {"run", "ended"} /\ run'.failed)
              => (/\ pc' = "idle"
                  /\ run'.kind = "ended" /\ run'.exit = 1
                  /\ run'.manifest = "none"
                  /\ manifest' = run.before)]_vars

\* The bundler has failed in a run that had already compiled a unit and had
\* found a manifest in place.
C7_Witness ==
    /\ run.kind = "ended" /\ run.failed /\ run.exit = 1
    /\ manifest.kind = "json"
    /\ \E u \in BundleFiles :
           \/ ~HasEntry(manifest, u)
           \/ manifest.bundles[u].builtAt # out[u].mtime

\* The manifest parses and records the shared digest of a shared file or a
\* build config other than the present ones.
SharedDiffersFromRecorded ==
    /\ manifest.kind = "json"
    /\ \E s \in Versions, c \in CfgVersions :
           /\ <<s, c>> # <<shared, cfg>>
           /\ manifest.sharedHash = SharedHashOf(s, c)

\* C8: when the detector has run on a manifest whose sharedHash was recorded
\* for other shared contents than the present ones, it has reported every
\* discovered unit and sharedChanged = true.
C8_SharedInvalidation ==
    (detectOut.kind = "result" /\ detectOut.exit = 0 /\ SharedDiffersFromRecorded)
        => (detectOut.stdout = DiscoverInterfaces /\ detectOut.sharedChanged)

\* The detector has reported a unit for the shared change alone: the unit's
\* manifest entry holds the digest of its present sources.
C8_Witness ==
    /\ detectOut.kind = "result" /\ detectOut.exit = 0
    /\ SharedDiffersFromRecorded
    /\ detectOut.sharedChanged
    /\ \E u \in ToSet(detectOut.stdout) :
           /\ HasEntry(manifest, u)
           /\ manifest.bundles[u].sourceHash = HashDirectory(src[u])

\* C9: when the detector has run with the source root in place and the
\* manifest absent or unparseable, it has exited 0 and reported every
\* discovered unit, sharedChanged = false, the same in both cases.
C9_BadManifestMeansAllChanged ==
    (detectOut.kind = "result" /\ rootExists /\ manifest.kind \in {"absent", "corrupt"})
        => /\ detectOut.exit = 0
           /\ detectOut.stdout = DiscoverInterfaces
           /\ ~detectOut.sharedChanged

\* The detector has run on an unparseable manifest with bundles already
\* built and units to report.
C9_Witness ==
    /\ detectOut.kind = "result" /\ rootExists
    /\ manifest.kind = "corrupt"
    /\ BundleFiles # {}
    /\ detectOut.stdout = DiscoverInterfaces /\ Len(DiscoverInterfaces) = 2

\* C10 as stated: while a no-flag run compiles, the bundle files present are
\* those of the units it has compiled so far (it cleared the others first),
\* and once it has exited 0 they are those of the discovered units.
C10_NoFlagRunRebuildsAll ==
    /\ (run.kind = "run" /\ CommandOf(run) = "all") => BundleFiles = ToSet(built)
    /\ (run.kind = "ended" /\ run.command = "all" /\ run.exit = 0)
           => BundleFiles = ToSet(DiscoverInterfaces)

\* C10 amended: the same of every no-flag run that discovers at least one
\* unit.
C10_NoFlagRunRebuildsAllFound ==
    DiscoverInterfaces # <<>> =>
        /\ (run.kind = "run" /\ CommandOf(run) = "all") => BundleFiles = ToSet(built)
        /\ (run.kind = "ended" /\ run.command = "all" /\ run.exit = 0)
               => BundleFiles = ToSet(DiscoverInterfaces)

\* A no-flag run has exited 0 having removed the bundle of a unit that is
\* not discovered any more.
C10_Witness ==
    /\ run.kind = "ended" /\ run.command = "all" /\ run.exit = 0
    /\ DiscoverInterfaces # <<>>
    /\ BundleFiles = ToSet(DiscoverInterfaces)
    /\ \E u \in UnitNames : HasEntry(manifest, u) /\ u \notin BundleFiles

\* A --changed run (without --force) whose detector process worked is in
\* progress.
ChangedRunInProgress(r) ==
    r.kind = "run" /\ CommandOf(r) = "changed" /\ r.detector = "ok"

\* C11: a --changed run whose detector worked selects exactly the units
\* detectChanges reports, compiles them in that order and has compiled all
\* of them when it comes to the manifest; a --changed run started when
\* detectChanges reports none ends at once with exit code 0, no bundle
\* cleared or written and the manifest not regenerated.
C11_ChangedRunBuildsWhatDetectReports ==
    [][/\ ChangedRunInProgress(run') =>
              /\ run'.selected = DetectChanges(DiscoverInterfaces).changedInterfaces
              /\ built' = SubSeq(run'.selected, 1, Len(built'))
              /\ pc' = "manifest" => built' = run'.selected
       /\ (/\ pc = "idle" /\ rootExists
           /\ DetectChanges(DiscoverInterfaces).changedInterfaces = <<>>
           /\ \/ ChangedRunInProgress(run')
              \/ run'.kind = "ended" /\ run'.command = "changed")
              => (/\ pc' = "idle" /\ run'.kind = "ended"
                  /\ run'.exit = 0 /\ run'.manifest = "none"
                  /\ UNCHANGED <<out, manifest, clock>>)]_vars

\* A --changed run has compiled the one unit of two that the detector
\* reported, the other keeping its bundle.
C11_Witness ==
    /\ ChangedRunInProgress(run) /\ pc = "manifest"
    /\ Len(DiscoverInterfaces) = 2
    /\ Len(built) = 1
    /\ BundleFiles = ToSet(DiscoverInterfaces)

\* C12: a run with --force selects every discovered unit, and when it has
\* exited 0 it has left what a no-flag run leaves: the bundle files of the
\* discovered units and no other, and (if written) a manifest listing them.
C12_ForceRunIsNoFlagRun ==
    /\ (run.kind = "run" /\ run.force) => run.selected = DiscoverInterfaces
    /\ (/\ run.kind = "ended" /\ run.command = "force" /\ run.exit = 0
        /\ DiscoverInterfaces # <<>>)
           => /\ BundleFiles = ToSet(DiscoverInterfaces)
              /\ run.manifest = "written" =>
                     DOMAIN manifest.bundles = ToSet(DiscoverInterfaces)

\* C13: the step in which the manifest regeneration fails ends the run with
\* exit code 0, and every unit the run compiled has its bundle on disk,
\* built from the unit's present sources.
C13_ManifestFailureIsWarning ==
    [][(pc = "manifest" /\ run'.kind = "ended" /\ run'.manifest = "failed")
          => /\ pc' = "idle"
             /\ run'.exit = 0 /\ ~run'.failed
             /\ built = run.selected
             /\ \A u \in ToSet(built) :
                    /\ out'[u].present
                    /\ out'[u].src = src[u]
                    /\ out'[u].mtime > clock - Len(built)]_vars

\* A run has ended with exit code 0 after its manifest regeneration failed:
\* two bundles are on disk and there is still no manifest.
C13_Witness ==
    /\ run.kind = "ended" /\ run.manifest = "failed" /\ run.exit = 0
    /\ Cardinality(BundleFiles) = 2
    /\ manifest.kind = "absent"

\* A step in which the manifest generator, run by the orchestrator or on its
\* own, generates and writes the manifest.
GeneratorWrites ==
    \/ ManifestWritten
    \/ pc = "idle" /\ genOut'.kind = "result" /\ genOut'.exit = 0

\* C14: the manifest a successful regeneration writes lists exactly the
\* discovered units that have a bundle file, each with the digest of the
\* unit's present sources and the size and mtime of its bundle file, under
\* the present shared digest; the manifest it replaces has no part in it.
C14_ManifestIsFunctionOfFiles ==
    [][GeneratorWrites =>
          /\ manifest'.kind = "json"
          /\ manifest'.sharedHash = SharedHashOf(shared, cfg)
          /\ DOMAIN manifest'.bundles =
                 {u \in UnitNames : src[u].isDir /\ src[u].index # 0 /\ out[u].present}
          /\ \A u \in DOMAIN manifest'.bundles :
                 /\ manifest'.bundles[u].sourceHash = HashDirectory(src[u])
                 /\ manifest'.bundles[u].bundleSize = out[u].size
                 /\ manifest'.bundles[u].builtAt = out[u].mtime
                 /\ manifest'.bundles[u].bundleFile = <<u, ".js">>
          /\ UNCHANGED <<out, src, shared, cfg>>]_vars

\* A regeneration has replaced a manifest that had an entry for a unit which
\* has no bundle file any more: the new manifest is without it.
C14_Witness ==
    /\ genOut.kind = "result" /\ genOut.exit = 0
    /\ manifest.kind = "json"
    /\ \E u \in ToSet(DiscoverInterfaces) : ~HasBundle(u) /\ ~HasEntry(manifest, u)
    /\ \E u \in ToSet(DiscoverInterfaces) : HasBundle(u) /\ HasEntry(manifest, u)

\* C15: a run that has ended has exit code 1 when the source root is
\* missing, when its --only validation failed or when the bundler failed
\* for a unit, and exit code 0 in every other case, a --changed run that
\* found nothing to build included.
C15_ExitCodes ==
    run.kind = "ended" =>
        /\ run.exit \in {0, 1}
        /\ run.exit = 1 <=>
               \/ ~rootExists
               \/ run.failed
               \/ /\ run.command = "only" /\ run.unknown
                  /\ DiscoverInterfaces # <<>>

\* A --changed run has ended with exit code 0 having found nothing to
\* build, bundles and manifest being in place.
C15_Witness ==
    /\ run.kind = "ended" /\ run.command = "changed"
    /\ run.exit = 0 /\ run.manifest = "none"
    /\ Len(DiscoverInterfaces) = 2
    /\ BundleFiles = ToSet(DiscoverInterfaces)

\* C16: a standalone detector run changes no source, no bundle file and not
\* the manifest, starts no build, and when it exits 0 its stdout is a list
\* of discovered unit names, each once, in discovery order; it exits 0
\* whenever the source root exists.
C16_DetectorOnlyReads ==
    [][(pc = "idle" /\ detectOut'.kind = "result")
          => /\ UNCHANGED <<rootExists, src, shared, cfg, out, manifest, clock>>
             /\ pc' = "idle" /\ run'.kind = "none"
             /\ detectOut'.exit = 0 <=> rootExists
             /\ detectOut'.stdout =
                    SelectSeq(DiscoverInterfaces,
                              LAMBDA n : n \in ToSet(detectOut'.stdout))]_vars

\* The detector has reported one unit of two, bundles and manifest being in
\* place.
C16_Witness ==
    /\ detectOut.kind = "result" /\ detectOut.exit = 0
    /\ Len(detectOut.stdout) = 1 /\ Len(DiscoverInterfaces) = 2
    /\ manifest.kind = "json" /\ BundleFiles # {}

Hashed(u) == dirHash[u] # NotHashed

\* C17: digests computed of one tree are equal whatever the order the file
\* system lists its entries in: a digest computed again of an unchanged
\* tree is the same, and two trees holding the same (relative path, content)
\* pairs, listed in different orders at different places, have one digest.
C17_DigestIgnoresEnumerationOrder ==
    [][/\ \A u \in HashUnits :
              (Hashed(u) /\ Hashed(u)' /\ tree'[u] = tree[u])
                  => dirHash'[u] = dirHash[u]
       /\ (Hashed("a")' /\ Hashed("b")' /\ tree'["a"] = tree'["b"])
              => dirHash'["a"] = dirHash'["b"]]_vars

\* Two files, one in the sub-directory, listed in different orders at the
\* two places, both digests computed.
C17_Witness ==
    /\ Hashed("a") /\ Hashed("b")
    /\ tree["a"] = tree["b"] /\ Cardinality(tree["a"]) = 2
    /\ SubEntries(tree["a"]) # {}
    /\ readdir["a"] # readdir["b"]

\* The two trees hold the same paths and differ in the content of one file.
OneContentApart(t1, t2) ==
    PathsOf(t1) = PathsOf(t2) /\ Cardinality(t1 \ t2) = 1

\* The two trees differ in the path of one file, its content being the same.
OnePathApart(t1, t2) ==
    \E f \in t1, g \in t2 :
        f.content = g.content /\ f.path # g.path /\ t1 \ {f} = t2 \ {g}

C19_DiscoveryFilter ==
    discovered.by # "none" =>
        /\ ToSet(discovered.names) =
               {entry \in EntryNames :
                   /\ rootDir[entry].kind = "dir"
                   /\ Head(entry) \notin {"_", "."}
                   /\ rootDir[entry].index}
        /\ \A entry \in EntryNames :
               (rootDir[entry].nested /\ ~rootDir[entry].index)
                   => entry \notin ToSet(discovered.names)
        /\ Len(discovered.names) = Cardinality(ToSet(discovered.names))

\* Discovery ran where a hidden directory and a template directory hold
\* index.tsx, a file sits beside the units, one directory has its index.tsx
\* only deeper down, and two units are found.
C19_Witness ==
    /\ discovered.by = "generator"
    /\ rootDir[<<".", "g">>] = [kind |-> "dir", index |-> TRUE, nested |-> FALSE]
    /\ rootDir[<<"_", "t">>] = [kind |-> "dir", index |-> TRUE, nested |-> FALSE]
    /\ rootDir[<<"w">>] = [kind |-> "dir", index |-> FALSE, nested |-> TRUE]
    /\ Len(discovered.names) = 2

\* A script ran from start to end in this step, and its exit code.
ScriptRanAtOnce ==
    /\ pc = "idle" /\ pc' = "idle"
    /\ \/ run'.kind = "ended"
       \/ detectOut'.kind = "result"
       \/ genOut'.kind = "result"

ExitCodeOfScript ==
    IF run'.kind = "ended" THEN run'.exit
    ELSE IF detectOut'.kind = "result" THEN detectOut'.exit
    ELSE genOut'.exit

\* C20: with src/interfaces/ missing, the orchestrator, the detector and
\* the manifest generator each exit 1 and write neither a bundle nor the
\* manifest; with the root there and no valid unit in it, the orchestrator
\* and the detector exit 0 and the generator exits 0 unless it could not
\* write.
C20_MissingRootIsFatal ==
    [][ScriptRanAtOnce =>
          /\ ~rootExists =>
                 /\ ExitCodeOfScript = 1
                 /\ UNCHANGED <<out, manifest>>
          /\ (rootExists /\ DiscoverInterfaces = <<>>) =>
                 \/ ExitCodeOfScript = 0
                 \/ genOut'.kind = "result" /\ manifest' = manifest]_vars

\* The name with the separators taken out and the character at the start
\* and after each separator in upper case.
PascalCaseOf(entry, seps) ==
    LET idx == SelectSeq([i \in 1..Len(entry) |-> i], LAMBDA i : entry[i] \notin seps)
    IN  [k \in DOMAIN idx |->
            IF idx[k] = 1 \/ entry[idx[k] - 1] \in seps
            THEN ToUpperCase(entry[idx[k]])
            ELSE entry[idx[k]]]

\* C21 as written: the global symbol of a unit is the PascalCase form of its
\* directory name with '-' and '_' both taken as separators, the unit
\* "widget" having NextWidget.
C21_GlobalNameKebabAndSnake ==
    \A f \in ifaces :
        f.globalName = IF f.name = Widget THEN NextWidgetName
                       ELSE PascalCaseOf(f.name, {"-", "_"})

\* C21 as the code has it: the global symbol of a unit is the PascalCase
\* form of its directory name with '-' as the only separator, a '_' staying
\* in the symbol and the character after it unchanged; my-cool-widget gives
\* MyCoolWidget, my_widget gives My_widget, and "widget" gives NextWidget.
C21_GlobalNameKebabOnly ==
    \A f \in ifaces :
        /\ f.globalName = IF f.name = Widget THEN NextWidgetName
                          ELSE PascalCaseOf(f.name, {"-"})
        /\ f.name = <<"m", "y", "-", "c", "o", "o", "l", "-", "w", "i", "d", "g", "e", "t">> => f.globalName = <<"M", "y", "C", "o", "o", "l", "W", "i", "d", "g", "e", "t">>
        /\ f.name = <<"m", "y", "_", "w", "i", "d", "g", "e", "t">> => f.globalName = <<"M", "y", "_", "w", "i", "d", "g", "e", "t">>

\* Discovery named the units my_widget and widget.
C21_Witness ==
    /\ unitDirs = {<<"m", "y", "_", "w", "i", "d", "g", "e", "t">>, Widget}
    /\ ifaces # NoIfaces
    /\ \E f \in ifaces : f.name = Widget /\ f.globalName = NextWidgetName

\* C29: the units found in one discovery have pairwise different global
\* symbols.
C29_GlobalNamesDistinct ==
    \A f, g \in ifaces : f.name # g.name => f.globalName # g.globalName

\* C22: when the manifest parses and its sharedHash is the current shared
\* digest, the detector reports exactly the discovered units that have no
\* entry or whose entry's sourceHash is not their current digest; a unit
\* with an entry that is no longer discovered is not reported, and the
\* detector exits 0.
C22_DetectComparesEntries ==
    (/\ detectOut.kind = "result" /\ rootExists
     /\ manifest.kind = "json"
     /\ manifest.sharedHash = SharedHashOf(shared, cfg))
        => /\ detectOut.exit = 0
           /\ ToSet(detectOut.stdout) =
                  {n \in ToSet(DiscoverInterfaces) :
                      \/ n \notin DOMAIN manifest.bundles
                      \/ manifest.bundles[n].sourceHash # HashDirectory(src[n])}
           /\ \A n \in DOMAIN manifest.bundles :
                  n \notin ToSet(DiscoverInterfaces) => n \notin ToSet(detectOut.stdout)

\* The detector ran against a manifest that still has the entry of a unit
\* whose index.tsx is gone, another unit being discovered and unchanged.
C22_Witness ==
    /\ detectOut.kind = "result" /\ detectOut.exit = 0
    /\ manifest.kind = "json"
    /\ manifest.sharedHash = SharedHashOf(shared, cfg)
    /\ DOMAIN manifest.bundles \ ToSet(DiscoverInterfaces) # {}
    /\ DiscoverInterfaces # <<>>
    /\ detectOut.stdout = <<>>

\* C23: while an orchestrator run is building, the units compiled so far
\* are the first units of its list, the list is in discovery order, each
\* compiled bundle was written strictly before the next one, and no unit
\* further down the list has been compiled yet.
C23_BuildsOneAfterAnother ==
    run.kind = "run" =>
        /\ run.selected = SelectSeq(DiscoverInterfaces, LAMBDA n : n \in ToSet(run.selected))
        /\ built = SubSeq(run.selected, 1, Len(built))
        /\ \A i, j \in DOMAIN built :
               i < j => /\ out[built[i]].present /\ out[built[j]].present
                        /\ out[built[i]].mtime < out[built[j]].mtime
        /\ \A k \in (Len(built) + 1)..Len(run.selected) :
               \A i \in DOMAIN built :
                   out[run.selected[k]].present
                       => out[run.selected[k]].mtime < out[built[i]].mtime

\* A run over two units has compiled the first and not yet the second,
\* whose bundle from an earlier run is still there.
C23_Witness ==
    /\ run.kind = "run" /\ pc = "build"
    /\ Len(run.selected) = 2 /\ Len(built) = 1
    /\ out[run.selected[2]].present

\* The files of a tree that can be read.
Readable(t) == {f \in t : f.content # 0}

\* C24: hashDirectory always returns a digest; that of a directory that
\* does not exist is that of an empty directory (the hash of nothing), and a
\* file that cannot be read adds nothing: the digest is that of the tree
\* without it.
C24_MissingAndUnreadableAreSkipped ==
    Hashed("a") =>
        /\ ~readdir["a"].exists => dirHash["a"] = Sha256(<<>>)
        /\ (~readdir["a"].exists /\ Hashed("b") /\ tree["b"] = {})
               => dirHash["a"] = dirHash["b"]
        /\ tree["a"] = {} => dirHash["a"] = Sha256(<<>>)
        /\ dirHash["a"] = HashDirectoryOf(BaseDir["a"],
                                          SortedListing(Readable(tree["a"])),
                                          Readable(tree["a"]))

\* The digest was taken of a tree of two files one of which cannot be read.
C24_Witness ==
    /\ Hashed("a")
    /\ Cardinality(tree["a"]) = 2
    /\ Cardinality(Readable(tree["a"])) = 1
    /\ dirHash["a"] # Sha256(<<>>)

\* C25: between runs, every discovered unit that detectChanges does not
\* report as changed has its bundle file in public/bundles/.
C25_UnchangedUnitsHaveBundles ==
    (pc = "idle" /\ rootExists) =>
        \A n \in ToSet(DiscoverInterfaces) :
            n \notin ToSet(DetectChanges(DiscoverInterfaces).changedInterfaces)
                => out[n].present

\* The run is about to regenerate the manifest, and the source of a unit it
\* compiled has been written since.
EditedSinceCompiled(n) ==
    /\ pc = "manifest"
    /\ n \in ToSet(built)
    /\ out[n].present /\ out[n].src # src[n]

DetectorFailed(r) == r.kind = "run" /\ r.detector = "failed"

\* C27: a --changed run whose detector subprocess fails goes on: it selects
\* every discovered unit, deletes no bundle before building, and having
\* compiled them all comes to regenerate the manifest; a --changed run ends
\* without building only when the root is missing, nothing is discovered or
\* the detector's list is empty.
C27_DetectorFailureBuildsAll ==
    [][/\ (pc = "idle" /\ DetectorFailed(run'))
              => /\ CommandOf(run') = "changed"
                 /\ run'.selected = DiscoverInterfaces
                 /\ pc' = "build"
                 /\ UNCHANGED <<out, manifest>>
       /\ (pc = "build" /\ DetectorFailed(run) /\ DetectorFailed(run'))
              => /\ \A n \in UnitNames : out[n].present => out'[n].present
                 /\ pc' = "manifest" <=> ToSet(built') = ToSet(DiscoverInterfaces)
       /\ (pc = "manifest" /\ DetectorFailed(run) /\ pc' = "idle")
              => run'.manifest \in {"written", "failed"}
       /\ (/\ pc = "idle" /\ rootExists /\ DiscoverInterfaces # <<>>
           /\ run'.kind = "ended" /\ run'.command = "changed")
              => DetectChanges(DiscoverInterfaces).changedInterfaces = <<>>]_vars

\* The detector failed in a --changed run that has now compiled the first
\* of two units, both bundles being there and the manifest on disk
\* recording both units as unchanged.
C27_Witness ==
    /\ DetectorFailed(run) /\ pc = "build"
    /\ Len(run.selected) = 2 /\ Len(built) = 1
    /\ BundleFiles = ToSet(DiscoverInterfaces)
    /\ DetectChanges(DiscoverInterfaces).changedInterfaces = <<>>

C30_NoReadyAfterUnmount ==
    \A i, j \in DOMAIN widget.events :
        (i < j /\ widget.events[i] = "unmount") => widget.events[j] # "ready"

====
